---- MODULE Spec2Model ----
(***************************************************************************)
(* Two-party sealed-bid auction server (commit / reveal).                  *)
(*                                                                         *)
(* The Express handlers of server.js run on Node's single thread, call     *)
(* only synchronous database functions and never await: each handler, from *)
(* its first read to its last write and its response, is one atomic step.  *)
(* Strings supplied by callers (bid text, secret, title) are sequences of  *)
(* one-character strings; identifiers produced by the server (auction id,  *)
(* seat token, seat label) are atomic strings.                             *)
(* A nullable column or an optional value is <<>> (NULL) or <<v>>.         *)
(* The rate limiters and the static file routes are library code placed    *)
(* before the handlers; the actions below model requests that reached      *)
(* their handler.  The created_at column is written once by the database   *)
(* default and never read, it is left out of the row.                      *)
(***************************************************************************)
EXTENDS Integers, Sequences, FiniteSets, TLC

VARIABLES dbReady, db, last, conn, cleared

vars == <<dbReady, db, last, conn, cleared>>

NULL == <<>>
Some(v) == <<v>>
IsNull(x) == x = NULL
Val(x) == x[1]

Seats == {"A", "B"}
Other(seat) == IF seat = "A" THEN "B" ELSE "A"

(***************************************************************************)
(* Text helpers (JavaScript string operations used by the handlers).       *)
(***************************************************************************)
IsSpace(ch) == ch = " "
IsDigit(ch) == ch \in {"0", "1", "2", "3", "4", "5", "6", "7", "8", "9"}

DigitVal(ch) ==
  CASE ch = "0" -> 0 [] ch = "1" -> 1 [] ch = "2" -> 2 [] ch = "3" -> 3
    [] ch = "4" -> 4 [] ch = "5" -> 5 [] ch = "6" -> 6 [] ch = "7" -> 7
    [] ch = "8" -> 8 [] ch = "9" -> 9

DigitChar(d) ==
  CASE d = 0 -> "0" [] d = 1 -> "1" [] d = 2 -> "2" [] d = 3 -> "3"
    [] d = 4 -> "4" [] d = 5 -> "5" [] d = 6 -> "6" [] d = 7 -> "7"
    [] d = 8 -> "8" [] d = 9 -> "9"

RECURSIVE Pow10(_)
Pow10(k) == IF k <= 0 THEN 1 ELSE 10 * Pow10(k - 1)

\* String.prototype.trim
RECURSIVE TrimLeft(_)
TrimLeft(t) == IF Len(t) > 0 /\ IsSpace(t[1]) THEN TrimLeft(Tail(t)) ELSE t

RECURSIVE TrimRight(_)
TrimRight(t) ==
  IF Len(t) > 0 /\ IsSpace(t[Len(t)]) THEN TrimRight(SubSeq(t, 1, Len(t) - 1)) ELSE t

Trim(t) == TrimRight(TrimLeft(t))

\* Number of digits of t starting at position i
RECURSIVE DigitRun(_, _)
DigitRun(t, i) == IF i <= Len(t) /\ IsDigit(t[i]) THEN 1 + DigitRun(t, i + 1) ELSE 0

\* Decimal digits of a natural number
RECURSIVE NatToText(_)
NatToText(n) == IF n < 10 THEN <<DigitChar(n)>> ELSE NatToText(n \div 10) \o <<DigitChar(n % 10)>>

\* String.prototype.split('.')
RECURSIVE SplitDot(_)
SplitDot(t) ==
  IF \E i \in 1..Len(t) : t[i] = "."
    THEN LET i == CHOOSE j \in 1..Len(t) : t[j] = "." /\ \A k \in 1..(j - 1) : t[k] # "."
         IN <<SubSeq(t, 1, i - 1)>> \o SplitDot(SubSeq(t, i + 1, Len(t)))
    ELSE <<t>>

(***************************************************************************)
(* Numbers.  A JavaScript number read from text is [nan, neg, m, e]: the   *)
(* value (-1)^neg * m * 10^e.  A stored bid (REAL column) is the number of *)
(* hundredths, exact for every two-decimal text of at most 100000.00.      *)
(***************************************************************************)
NaN == [nan |-> TRUE, neg |-> FALSE, m |-> 0, e |-> 0]

\* parseFloat: leading white space and a sign are skipped, then the longest prefix
\* that is a decimal literal is read, one character at a time.
\*   neg: a minus sign was read       m: the digits read so far, as a number
\*   n: how many digits were read     f: how many of them follow the point
\*   x: the exponent digits read so far, as a number
Number(neg, m, e) == [nan |-> FALSE, neg |-> neg, m |-> m, e |-> e]

RECURSIVE ScanExponent(_, _, _, _, _, _, _)
ScanExponent(t, i, neg, m, f, eNeg, x) ==
  IF i <= Len(t) /\ IsDigit(t[i])
    THEN ScanExponent(t, i + 1, neg, m, f, eNeg, 10 * x + DigitVal(t[i]))
    ELSE Number(neg, m, (IF eNeg THEN 0 - x ELSE x) - f)

ScanExponentMark(t, i, neg, m, n, f) ==
  IF n = 0 THEN NaN
  ELSE IF i <= Len(t) /\ t[i] \in {"e", "E"}
    THEN IF i + 1 <= Len(t) /\ t[i + 1] \in {"-", "+"}
           THEN IF DigitRun(t, i + 2) > 0
                  THEN ScanExponent(t, i + 2, neg, m, f, t[i + 1] = "-", 0)
                  ELSE Number(neg, m, 0 - f)
           ELSE IF DigitRun(t, i + 1) > 0
                  THEN ScanExponent(t, i + 1, neg, m, f, FALSE, 0)
                  ELSE Number(neg, m, 0 - f)
  ELSE Number(neg, m, 0 - f)

RECURSIVE ScanFraction(_, _, _, _, _, _)
ScanFraction(t, i, neg, m, n, f) ==
  IF i <= Len(t) /\ IsDigit(t[i])
    THEN ScanFraction(t, i + 1, neg, 10 * m + DigitVal(t[i]), n + 1, f + 1)
    ELSE ScanExponentMark(t, i, neg, m, n, f)

RECURSIVE ScanInteger(_, _, _, _, _)
ScanInteger(t, i, neg, m, n) ==
  IF i <= Len(t) /\ IsDigit(t[i])
    THEN ScanInteger(t, i + 1, neg, 10 * m + DigitVal(t[i]), n + 1)
  ELSE IF i <= Len(t) /\ t[i] = "."
    THEN ScanFraction(t, i + 1, neg, m, n, 0)
  ELSE ScanExponentMark(t, i, neg, m, n, 0)

ScanSign(t) ==
  IF Len(t) > 0 /\ t[1] \in {"-", "+"}
    THEN ScanInteger(t, 2, t[1] = "-", 0, 0)
    ELSE ScanInteger(t, 1, FALSE, 0, 0)

parseFloat(text) == ScanSign(TrimLeft(text))

isNaN(num) == num.nan

\* num <= 0
LeqZero(num) == num.neg \/ num.m = 0

\* num > 100000
Gt100000(num) ==
  /\ ~num.neg
  /\ num.m > 0
  /\ IF num.e >= 0
       THEN num.e > 5 \/ num.m * Pow10(num.e) > 100000
       ELSE \/ num.m \div Pow10(0 - num.e) > 100000
            \/ num.m \div Pow10(0 - num.e) = 100000 /\ num.m % Pow10(0 - num.e) > 0

\* Number.prototype.toFixed(2) of a positive number: the hundredths, rounded to nearest
Hundredths(num) ==
  IF num.e >= -2
    THEN num.m * Pow10(num.e + 2)
    ELSE LET p == Pow10(0 - num.e - 2)
         IN (num.m \div p) + (IF 2 * (num.m % p) >= p THEN 1 ELSE 0)

CentsText(c) ==
  NatToText(c \div 100) \o <<".", DigitChar((c % 100) \div 10), DigitChar(c % 10)>>

toFixed2(num) == CentsText(Hundredths(num))

(***************************************************************************)
(* Values of a JSON request body.  text is the string itself, or           *)
(* String(n) for a number n.                                               *)
(***************************************************************************)
JStr(t) == [type |-> "string", text |-> t]
JNum(t) == [type |-> "number", text |-> t]
Undefined == [type |-> "undefined", text |-> <<>>]

\* !v
Falsy(v) ==
  \/ v.type = "undefined"
  \/ v.type = "string" /\ v.text = <<>>
  \/ v.type = "number" /\ (isNaN(parseFloat(v.text)) \/ parseFloat(v.text).m = 0)

(***************************************************************************)
(* SHA-256 is a symbolic injective function: the digest of a payload is    *)
(* the payload tagged "hex64", the tag standing for "64 lowercase hex      *)
(* characters".  Other commit strings carry another tag.                   *)
(***************************************************************************)
computeHash(payload) == <<"hex64", payload>>

\* /^[a-f0-9]{64}$/.test(commit)
IsHex64(commit) == commit[1] = "hex64"

\* Variant: the payload leaves the secret out
PayloadWithoutSecret(bidStr, secret, auctionId, seat) ==
  bidStr \o <<"|", auctionId, "|", seat>>

\* Variant: the payload names seat A whoever reveals
PayloadForSeatA(bidStr, secret, auctionId, seat) ==
  bidStr \o <<"|">> \o secret \o <<"|", auctionId, "|", "A">>

\* `${bidStr}|${secret}|${auctionId}|${seat}`
Payload(bidStr, secret, auctionId, seat) ==
  bidStr \o <<"|">> \o secret \o <<"|", auctionId, "|", seat>>

validateBid(bid) ==
  IF bid.type # "number" /\ bid.type # "string" THEN FALSE
  ELSE LET num   == parseFloat(bid.text)
           parts == SplitDot(bid.text)
       IN IF isNaN(num) \/ LeqZero(num) \/ Gt100000(num) THEN FALSE
          ELSE IF Len(parts) > 1 /\ Len(parts[2]) > 2 THEN FALSE
          ELSE TRUE

(***************************************************************************)
(* The database module: one table, keyed by auction id.  db is a function  *)
(* from the ids of the rows present to the rows.                           *)
(***************************************************************************)
NewRow(title, description, itemUrl, seatAToken, seatBToken) ==
  [title |-> title, description |-> description, item_url |-> itemUrl,
   seat_a_token |-> seatAToken, seat_b_token |-> seatBToken,
   commit_a |-> NULL, commit_b |-> NULL,
   bid_a |-> NULL, bid_b |-> NULL,
   secret_a |-> NULL, secret_b |-> NULL]

\* PRIMARY KEY (id), UNIQUE (seat_a_token), UNIQUE (seat_b_token)
InsertAllowed(d, id, seatAToken, seatBToken) ==
  /\ id \notin DOMAIN d
  /\ \A k \in DOMAIN d : d[k].seat_a_token # seatAToken
  /\ \A k \in DOMAIN d : d[k].seat_b_token # seatBToken

\* createAuction with the values generateAuctionId and generateToken returned;
\* threw is TRUE when the INSERT violates a constraint
createAuction(d, title, description, itemUrl, id, seatAToken, seatBToken) ==
  IF InsertAllowed(d, id, seatAToken, seatBToken)
    THEN [threw |-> FALSE,
          db |-> [k \in DOMAIN d \cup {id} |->
                    IF k = id THEN NewRow(title, description, itemUrl, seatAToken, seatBToken)
                    ELSE d[k]]]
    ELSE [threw |-> TRUE, db |-> d]

\* Variant: the row is looked up by the token alone, in any auction
getAuctionBySeatTokenAnyId(d, auctionId, seatToken) ==
  IF \E k \in DOMAIN d : d[k].seat_a_token = seatToken \/ d[k].seat_b_token = seatToken
    THEN LET k == CHOOSE j \in DOMAIN d :
                    d[j].seat_a_token = seatToken \/ d[j].seat_b_token = seatToken
         IN Some([auction |-> d[k],
                  seat |-> IF d[k].seat_a_token = seatToken THEN "A" ELSE "B"])
    ELSE NULL

getAuctionBySeatToken(d, auctionId, seatToken) ==
  IF /\ auctionId \in DOMAIN d
     /\ (d[auctionId].seat_a_token = seatToken \/ d[auctionId].seat_b_token = seatToken)
    THEN Some([auction |-> d[auctionId],
               seat |-> IF d[auctionId].seat_a_token = seatToken THEN "A" ELSE "B"])
    ELSE NULL

getAuctionById(d, auctionId) ==
  IF auctionId \in DOMAIN d THEN Some(d[auctionId]) ELSE NULL

setCommit(d, auctionId, seat, commit) ==
  IF auctionId \notin DOMAIN d THEN d
  ELSE IF seat = "A" THEN [d EXCEPT ![auctionId].commit_a = Some(commit)]
  ELSE [d EXCEPT ![auctionId].commit_b = Some(commit)]

setReveal(d, auctionId, seat, bid, secret) ==
  IF auctionId \notin DOMAIN d THEN d
  ELSE IF seat = "A"
    THEN [d EXCEPT ![auctionId].bid_a = Some(bid), ![auctionId].secret_a = Some(secret)]
    ELSE [d EXCEPT ![auctionId].bid_b = Some(bid), ![auctionId].secret_b = Some(secret)]

resetCommit(d, auctionId, seat) ==
  IF auctionId \notin DOMAIN d THEN d
  ELSE IF seat = "A" THEN [d EXCEPT ![auctionId].commit_a = NULL]
  ELSE [d EXCEPT ![auctionId].commit_b = NULL]

\* Column of a seat
CommitOf(auction, seat) == IF seat = "A" THEN auction.commit_a ELSE auction.commit_b
BidOf(auction, seat) == IF seat = "A" THEN auction.bid_a ELSE auction.bid_b
SecretOf(auction, seat) == IF seat = "A" THEN auction.secret_a ELSE auction.secret_b

(***************************************************************************)
(* Inputs.                                                                 *)
(***************************************************************************)
AuctionIds == {"a1", "a2"}
Tokens == {"t1", "t2", "t3", "t4"}

\* What generateAuctionId, generateToken, generateToken return for one Create
Draws == {<<"a1", "t1", "t2">>, <<"a2", "t3", "t4">>}

LongTitle == [i \in 1..201 |-> "x"]
Titles == {Undefined, JNum(<<"5">>), JStr(<<" ">>), JStr(<<" ", "s", " ">>), JStr(LongTitle)}
Descriptions == {Undefined, JStr(<<" ">>)}
ItemUrls == {JStr(<<"u", " ">>)}

B150 == JStr(<<"1", ".", "5">>)
GoodBids == {B150, JStr(<<"1", ".", "5", "0">>), JNum(<<"2">>)}

\* Bid texts of at most MaxBidLen characters, and numbers as String(n) prints them
MaxBidLen == 3
BidAlphabet == {"0", "1", "5", ".", "e", "-", "a"}
BidTexts == UNION {[1..n -> BidAlphabet] : n \in 0..MaxBidLen}
BidNumbers ==
  {<<"1">>, <<"0">>, <<"-", "1">>, <<"1", ".", "5">>, <<"0", ".", "2", "5">>,
   <<"0", ".", "0", "0", "1">>, <<"1", "e", "-", "7">>,
   <<"1", "0", "0", "0", "0", "0">>, <<"1", "0", "0", "0", "0", "1">>,
   <<"1", "0", "0", "0", "0", "0", ".", "0", "1">>}
BidInputs ==
  {JStr(t) : t \in BidTexts} \cup {JNum(t) : t \in BidNumbers}
    \cup {JStr(<<"1", "0", "0", "0", "0", "0">>), JStr(<<"1", "0", "0", "0", "0", "1">>),
          JStr(<<"1", "0", "0", "0", "0", "0", ".", "0", "0">>),
          JStr(<<"1", "0", "0", "0", "0", "0", ".", "0", "1">>),
          JStr(<<"1", ".", "0", "0", "5">>)}

Bids == GoodBids \cup {JStr(<<"0">>), Undefined}

\* The documented commit formula, as callers compute it:
\* SHA256("${bid}|${secret}|${auctionId}|${seat}"), bid formatted to 2 decimals
ClientCommit(bid, secret, auctionId, seat) ==
  <<"hex64", bid \o <<"|">> \o secret \o <<"|">> \o <<auctionId>> \o <<"|">> \o <<seat>>>>

\* Digests the callers computed before committing, all bound to auction a1
ClientDigests ==
  {ClientCommit(b, <<"s">>, "a1", x) :
     b \in {<<"1", ".", "5", "0">>, <<"2", ".", "0", "0">>}, x \in Seats}
Replayed == ClientCommit(<<"1", ".", "5", "0">>, <<"s">>, "a1", "A")

CommitRequests ==
  [auctionId : {"a1"}, seatToken : {"t1", "t2", "t3"}, commit : ClientDigests]
    \cup [auctionId : {"a2"}, seatToken : {"t3", "t4", "t1"}, commit : {Replayed}]
    \cup [auctionId : {"a1"}, seatToken : {"t1"}, commit : {<<"text", <<"Z">>>>, <<"empty", <<>>>>}]
    \cup [auctionId : {"a1"}, seatToken : {""}, commit : {Replayed}]

ResetRequests ==
  [auctionId : {"a1"}, seatToken : {"t1", "t2", "t3", ""}]
    \cup [auctionId : {"a2"}, seatToken : {"t3", "t4", "t1"}]

RevealRequests ==
  [auctionId : {"a1"}, seatToken : {"t1", "t2"}, bid : GoodBids, secret : {<<"s">>, <<"t">>}]
    \cup [auctionId : {"a2"}, seatToken : {"t3", "t4"}, bid : {B150}, secret : {<<"s">>}]
    \cup [auctionId : {"a1"}, seatToken : {"t3", ""}, bid : {B150}, secret : {<<"s">>}]
    \cup [auctionId : {"a1"}, seatToken : {"t1"}, bid : {JStr(<<"0">>), Undefined}, secret : {<<"s">>}]
    \cup [auctionId : {"a1"}, seatToken : {"t1"}, bid : {B150}, secret : {<<>>}]

StatusRequests ==
  [auctionId : {"a1"}, seatToken : {"t1", "t2", "t3", ""}]
    \cup [auctionId : {"a2"}, seatToken : {"t3", ""}]

\* validateBid, toFixed(2) of parseFloat, and parseFloat of that text, tabulated
ValidBid == [b \in Bids |-> validateBid(b)]
BidStr == [b \in Bids |-> IF validateBid(b) THEN toFixed2(parseFloat(b.text)) ELSE <<>>]
BidNumber == [b \in Bids |-> IF validateBid(b) THEN Hundredths(parseFloat(BidStr[b])) ELSE 0]

\* The same three, read from the tables for the bids tabulated
IsValidBid(bid) == IF bid \in Bids THEN ValidBid[bid] ELSE validateBid(bid)
BidStrOf(bid) == IF bid \in Bids THEN BidStr[bid] ELSE toFixed2(parseFloat(bid.text))
BidNumberOf(bid) ==
  IF bid \in Bids THEN BidNumber[bid] ELSE Hundredths(parseFloat(BidStrOf(bid)))

(***************************************************************************)
(* The request handlers of server.js, as functions of the database and the *)
(* request: the database afterwards, the response (HTTP status and JSON    *)
(* body) and the seat the token resolved to ("-" when none was resolved).  *)
(* seatToken and secret are strings, "" and <<>> standing for an absent or *)
(* empty one; commit is a tagged commit string.                            *)
(***************************************************************************)
Reply(d, status, body, seat) == [db |-> d, res |-> [status |-> status, body |-> body], seat |-> seat]
Fail(d, status, message, seat) == Reply(d, status, [error |-> message], seat)

\* POST /api/auction
CreateHandler(d, title, description, itemUrl, id, seatAToken, seatBToken) ==
  IF Falsy(title) \/ title.type # "string" \/ Len(Trim(title.text)) = 0
    THEN Fail(d, 400, "Title is required", "-")
  ELSE IF Len(title.text) > 200
    THEN Fail(d, 400, "Title too long (max 200 chars)", "-")
  ELSE LET desc == IF description.type = "undefined" \/ Trim(description.text) = <<>>
                     THEN NULL ELSE Some(Trim(description.text))
           url  == IF itemUrl.type = "undefined" \/ Trim(itemUrl.text) = <<>>
                     THEN NULL ELSE Some(Trim(itemUrl.text))
           ins  == createAuction(d, Trim(title.text), desc, url, id, seatAToken, seatBToken)
       IN IF ins.threw
            THEN Fail(d, 500, "Failed to create auction", "-")
            ELSE Reply(ins.db, 200,
                       [auctionId |-> id, seatALink |-> <<id, seatAToken>>,
                        seatBLink |-> <<id, seatBToken>>], "-")

\* Variant: the commit guard never finds an earlier commit
existingCommitIgnored(auction, seat) == NULL

\* Variant: the commit guard reads the other seat's column
existingCommitOfOther(auction, seat) == IF seat = "A" THEN auction.commit_b ELSE auction.commit_a

\* const existingCommit = seat === 'A' ? auction.commit_a : auction.commit_b
existingCommit(auction, seat) == IF seat = "A" THEN auction.commit_a ELSE auction.commit_b

\* Variant: the reset guard reads the seat's own column
otherCommitOfSelf(auction, seat) == IF seat = "A" THEN auction.commit_a ELSE auction.commit_b

\* const otherCommit = seat === 'A' ? auction.commit_b : auction.commit_a
otherCommit(auction, seat) == IF seat = "A" THEN auction.commit_b ELSE auction.commit_a

\* Variant: the reveal guard looks at seat A's commit only
MissingCommitA(auction) == auction.commit_a = NULL

\* !auction.commit_a || !auction.commit_b
MissingCommit(auction) == auction.commit_a = NULL \/ auction.commit_b = NULL

\* Variant: the reveal guard looks at the bid of the other seat
existingBidOfOther(auction, seat) == IF seat = "A" THEN auction.bid_b ELSE auction.bid_a

\* Variant: the reveal guard never finds an earlier bid
existingBidIgnored(auction, seat) == NULL

\* const existingBid = seat === 'A' ? auction.bid_a : auction.bid_b
existingBid(auction, seat) == IF seat = "A" THEN auction.bid_a ELSE auction.bid_b

\* Variant: the reveal is verified against the other seat's commit
storedCommitOfOther(auction, seat) == IF seat = "A" THEN auction.commit_b ELSE auction.commit_a

\* const storedCommit = seat === 'A' ? auction.commit_a : auction.commit_b
storedCommit(auction, seat) == IF seat = "A" THEN auction.commit_a ELSE auction.commit_b

\* Variant: the commit is written before the one-shot guard is evaluated
CommitHandlerWriteFirst(d, auctionId, seatToken, commit) ==
  IF seatToken = "" \/ commit[1] = "empty"
    THEN Fail(d, 400, "seatToken and commit are required", "-")
  ELSE IF ~IsHex64(commit)
    THEN Fail(d, 400, "Invalid commit format", "-")
  ELSE LET result == getAuctionBySeatToken(d, auctionId, seatToken)
       IN IF result = NULL
            THEN Fail(d, 404, "Auction not found or invalid token", "-")
          ELSE LET auction == Val(result).auction
                   seat    == Val(result).seat
                   written == setCommit(d, auctionId, seat, commit)
               IN IF existingCommit(auction, seat) # NULL
                    THEN Fail(written, 400, "Commit already submitted", seat)
                    ELSE Reply(written, 200, [ok |-> TRUE], seat)

\* POST /api/auction/:auctionId/commit
CommitHandler(d, auctionId, seatToken, commit) ==
  IF seatToken = "" \/ commit[1] = "empty"
    THEN Fail(d, 400, "seatToken and commit are required", "-")
  ELSE IF ~IsHex64(commit)
    THEN Fail(d, 400, "Invalid commit format", "-")
  ELSE LET result == getAuctionBySeatToken(d, auctionId, seatToken)
       IN IF result = NULL
            THEN Fail(d, 404, "Auction not found or invalid token", "-")
          ELSE LET auction == Val(result).auction
                   seat    == Val(result).seat
               IN IF existingCommit(auction, seat) # NULL
                    THEN Fail(d, 400, "Commit already submitted", seat)
                    ELSE Reply(setCommit(d, auctionId, seat, commit), 200, [ok |-> TRUE], seat)

\* Variant: the reset is written without looking at the other seat
ResetCommitHandlerUnguarded(d, auctionId, seatToken) ==
  IF seatToken = ""
    THEN Fail(d, 400, "seatToken is required", "-")
  ELSE LET result == getAuctionBySeatToken(d, auctionId, seatToken)
       IN IF result = NULL
            THEN Fail(d, 404, "Auction not found or invalid token", "-")
            ELSE Reply(resetCommit(d, auctionId, Val(result).seat), 200, [ok |-> TRUE],
                       Val(result).seat)

\* POST /api/auction/:auctionId/reset-commit
ResetCommitHandler(d, auctionId, seatToken) ==
  IF seatToken = ""
    THEN Fail(d, 400, "seatToken is required", "-")
  ELSE LET result == getAuctionBySeatToken(d, auctionId, seatToken)
       IN IF result = NULL
            THEN Fail(d, 404, "Auction not found or invalid token", "-")
          ELSE LET auction == Val(result).auction
                   seat    == Val(result).seat
               IN IF otherCommit(auction, seat) # NULL
                    THEN Fail(d, 400, "Cannot reset: other party has already committed", seat)
                    ELSE Reply(resetCommit(d, auctionId, seat), 200, [ok |-> TRUE], seat)

\* Variant: a hash mismatch invalidates the seat's commit
RevealHandlerBurning(d, auctionId, seatToken, bid, secret) ==
  IF seatToken = "" \/ bid.type = "undefined" \/ secret = <<>>
    THEN Fail(d, 400, "seatToken, bid, and secret are required", "-")
  ELSE IF ~IsValidBid(bid)
    THEN Fail(d, 400, "Invalid bid: must be > 0, <= 100000, max 2 decimals", "-")
  ELSE LET result == getAuctionBySeatToken(d, auctionId, seatToken)
       IN IF result = NULL
            THEN Fail(d, 404, "Auction not found or invalid token", "-")
          ELSE LET auction == Val(result).auction
                   seat    == Val(result).seat
               IN IF MissingCommit(auction)
                    THEN Fail(d, 400, "Both parties must commit before reveal", seat)
                  ELSE IF existingBid(auction, seat) # NULL
                    THEN Fail(d, 400, "Already revealed", seat)
                  ELSE IF Some(computeHash(Payload(BidStrOf(bid), secret, auctionId, seat)))
                            # storedCommit(auction, seat)
                    THEN Fail(resetCommit(d, auctionId, seat), 400,
                              "Hash mismatch: bid or secret does not match commit", seat)
                    ELSE Reply(setReveal(d, auctionId, seat, BidNumberOf(bid), secret),
                               200, [ok |-> TRUE], seat)

\* POST /api/auction/:auctionId/reveal
RevealHandler(d, auctionId, seatToken, bid, secret) ==
  IF seatToken = "" \/ bid.type = "undefined" \/ secret = <<>>
    THEN Fail(d, 400, "seatToken, bid, and secret are required", "-")
  ELSE IF ~IsValidBid(bid)
    THEN Fail(d, 400, "Invalid bid: must be > 0, <= 100000, max 2 decimals", "-")
  ELSE LET result == getAuctionBySeatToken(d, auctionId, seatToken)
       IN IF result = NULL
            THEN Fail(d, 404, "Auction not found or invalid token", "-")
          ELSE LET auction == Val(result).auction
                   seat    == Val(result).seat
               IN IF MissingCommit(auction)
                    THEN Fail(d, 400, "Both parties must commit before reveal", seat)
                  ELSE IF existingBid(auction, seat) # NULL
                    THEN Fail(d, 400, "Already revealed", seat)
                  ELSE LET bidStr       == BidStrOf(bid)
                           payload      == Payload(bidStr, secret, auctionId, seat)
                           computedHash == computeHash(payload)
                       IN IF Some(computedHash) # storedCommit(auction, seat)
                            THEN Fail(d, 400, "Hash mismatch: bid or secret does not match commit", seat)
                            ELSE Reply(setReveal(d, auctionId, seat, BidNumberOf(bid), secret),
                                       200, [ok |-> TRUE], seat)

\* Variant: the phase looks at the commits before the bids
StatusHandlerCommitsFirst(d, auctionId, seatToken) ==
  LET found == getAuctionById(d, auctionId)
  IN IF found = NULL
       THEN Fail(d, 404, "Auction not found", "-")
     ELSE LET auction    == Val(found)
              hasCommitA == auction.commit_a # NULL
              hasCommitB == auction.commit_b # NULL
              hasRevealA == auction.bid_a # NULL
              hasRevealB == auction.bid_b # NULL
              phase      == IF hasCommitA /\ hasCommitB THEN "reveal"
                            ELSE IF hasRevealA /\ hasRevealB THEN "revealed"
                            ELSE "commit"
              response   == [phase |-> phase,
                             hasCommitA |-> hasCommitA, hasCommitB |-> hasCommitB,
                             hasRevealA |-> hasRevealA, hasRevealB |-> hasRevealB,
                             title |-> auction.title, description |-> auction.description,
                             itemUrl |-> auction.item_url]
              mySeat     == IF seatToken = "" THEN NULL
                            ELSE IF auction.seat_a_token = seatToken THEN Some("A")
                            ELSE IF auction.seat_b_token = seatToken THEN Some("B")
                            ELSE NULL
              withSeat   == IF mySeat = NULL THEN response
                            ELSE response @@ [mySeat |-> Val(mySeat)]
              withFlag   == IF hasRevealA /\ hasRevealB
                              THEN withSeat @@ [revealed |-> TRUE]
                              ELSE withSeat
          IN Reply(d, 200, withFlag, IF mySeat = NULL THEN "-" ELSE Val(mySeat))

\* GET /api/auction/:auctionId/status
StatusHandler(d, auctionId, seatToken) ==
  LET found == getAuctionById(d, auctionId)
  IN IF found = NULL
       THEN Fail(d, 404, "Auction not found", "-")
     ELSE LET auction    == Val(found)
              hasCommitA == auction.commit_a # NULL
              hasCommitB == auction.commit_b # NULL
              hasRevealA == auction.bid_a # NULL
              hasRevealB == auction.bid_b # NULL
              phase      == IF hasRevealA /\ hasRevealB THEN "revealed"
                            ELSE IF hasCommitA /\ hasCommitB THEN "reveal"
                            ELSE "commit"
              response   == [phase |-> phase,
                             hasCommitA |-> hasCommitA, hasCommitB |-> hasCommitB,
                             hasRevealA |-> hasRevealA, hasRevealB |-> hasRevealB,
                             title |-> auction.title, description |-> auction.description,
                             itemUrl |-> auction.item_url]
              mySeat     == IF seatToken = "" THEN NULL
                            ELSE IF auction.seat_a_token = seatToken THEN Some("A")
                            ELSE IF auction.seat_b_token = seatToken THEN Some("B")
                            ELSE NULL
              withSeat   == IF mySeat = NULL THEN response
                            ELSE response @@ [mySeat |-> Val(mySeat)]
              withFlag   == IF hasRevealA /\ hasRevealB
                              THEN withSeat @@ [revealed |-> TRUE]
                              ELSE withSeat
          IN Reply(d, 200, withFlag, IF mySeat = NULL THEN "-" ELSE Val(mySeat))

\* Variant: equal bids are decided for seat A
ResultHandlerTieToA(d, auctionId) ==
  LET found == getAuctionById(d, auctionId)
  IN IF found = NULL
       THEN Fail(d, 404, "Auction not found", "-")
     ELSE LET auction == Val(found)
          IN IF auction.bid_a = NULL \/ auction.bid_b = NULL
               THEN Reply(d, 200, [revealed |-> FALSE], "-")
             ELSE LET bidA == Val(auction.bid_a)
                      bidB == Val(auction.bid_b)
                      winner    == IF bidA >= bidB THEN "A" ELSE "B"
                      winnerBid == IF bidA >= bidB THEN bidA ELSE bidB
                  IN Reply(d, 200,
                           [revealed |-> TRUE, title |-> auction.title,
                            description |-> auction.description,
                            itemUrl |-> auction.item_url,
                            bidA |-> CentsText(bidA), bidB |-> CentsText(bidB),
                            winner |-> winner,
                            paymentAmount |-> Some(CentsText(winnerBid))], "-")

\* Variant: the result shows the bids as soon as one of them is stored
ResultHandlerEarly(d, auctionId) ==
  LET found == getAuctionById(d, auctionId)
  IN IF found = NULL
       THEN Fail(d, 404, "Auction not found", "-")
     ELSE LET auction == Val(found)
          IN IF auction.bid_a = NULL /\ auction.bid_b = NULL
               THEN Reply(d, 200, [revealed |-> FALSE], "-")
               ELSE Reply(d, 200,
                          [revealed |-> TRUE, title |-> auction.title,
                           description |-> auction.description,
                           itemUrl |-> auction.item_url,
                           bidA |-> auction.bid_a, bidB |-> auction.bid_b], "-")

\* GET /api/auction/:auctionId/result
ResultHandler(d, auctionId) ==
  LET found == getAuctionById(d, auctionId)
  IN IF found = NULL
       THEN Fail(d, 404, "Auction not found", "-")
     ELSE LET auction == Val(found)
          IN IF auction.bid_a = NULL \/ auction.bid_b = NULL
               THEN Reply(d, 200, [revealed |-> FALSE], "-")
             ELSE LET bidA == Val(auction.bid_a)
                      bidB == Val(auction.bid_b)
                      winner    == IF bidA > bidB THEN "A"
                                   ELSE IF bidB > bidA THEN "B" ELSE "TIE"
                      winnerBid == IF bidA > bidB THEN bidA
                                   ELSE IF bidB > bidA THEN bidB ELSE bidA
                  IN Reply(d, 200,
                           [revealed |-> TRUE, title |-> auction.title,
                            description |-> auction.description,
                            itemUrl |-> auction.item_url,
                            bidA |-> CentsText(bidA), bidB |-> CentsText(bidB),
                            winner |-> winner,
                            paymentAmount |-> IF winner # "TIE" THEN Some(CentsText(winnerBid))
                                              ELSE NULL], "-")

(***************************************************************************)
(* State machine.                                                          *)
(***************************************************************************)
Ops == {"create", "commit", "reset", "reveal", "status", "result"}

(***************************************************************************)
(* State.  dbReady and db are the server's; last is the latest request     *)
(* answered (operation, auction id, seat resolved, response) with          *)
(* mismatches, the number of hash mismatches in the run of consecutive     *)
(* reveal requests of that seat that it ends; conn is the requests in      *)
(* flight; cleared counts, per auction and seat and up to MaxClears, the   *)
(* steps that took a stored commit away (it is maintained by SpecLife).    *)
(***************************************************************************)
MaxMismatches == 2
MaxConns == 2
MaxClears == 2
Conns == 1..MaxConns

Idle == [state |-> "idle"]

Answer(op, id, out, n) == [op |-> op, id |-> id, seat |-> out.seat, res |-> out.res, mismatches |-> n]

Init ==
  /\ dbReady = FALSE
  /\ db = <<>>
  /\ last = [op |-> "none", id |-> "-", seat |-> "-",
             res |-> [status |-> 0, body |-> [ok |-> TRUE]], mismatches |-> 0]
  /\ conn = [c \in Conns |-> Idle]
  /\ cleared = [id \in AuctionIds |-> [seat \in Seats |-> 0]]

\* db.initDb() resolves
InitDb ==
  /\ ~dbReady
  /\ dbReady' = TRUE
  /\ UNCHANGED <<db, last, conn, cleared>>

\* Any /api/ request before the database is ready
Unavailable ==
  /\ ~dbReady
  /\ \E op \in Ops, id \in AuctionIds :
       last' = Answer(op, id, Fail(db, 503, "Database initializing, please retry", "-"), 0)
  /\ UNCHANGED <<dbReady, db, conn, cleared>>

Create ==
  /\ dbReady
  /\ \E title \in Titles, description \in Descriptions, itemUrl \in ItemUrls, draw \in Draws :
       LET out == CreateHandler(db, title, description, itemUrl, draw[1], draw[2], draw[3])
       IN /\ db' = out.db
          /\ last' = Answer("create", "-", out, 0)
  /\ UNCHANGED <<dbReady, conn, cleared>>

CommitRequest(r) ==
  LET out == CommitHandler(db, r.auctionId, r.seatToken, r.commit)
  IN /\ db' = out.db
     /\ last' = Answer("commit", r.auctionId, out, 0)

Commit ==
  /\ dbReady
  /\ \E r \in CommitRequests : CommitRequest(r)
  /\ UNCHANGED <<dbReady, conn, cleared>>

ResetRequest(r) ==
  LET out == ResetCommitHandler(db, r.auctionId, r.seatToken)
  IN /\ db' = out.db
     /\ last' = Answer("reset", r.auctionId, out, 0)

ResetCommit ==
  /\ dbReady
  /\ \E r \in ResetRequests : ResetRequest(r)
  /\ UNCHANGED <<dbReady, conn, cleared>>

IsMismatch(res) ==
  res.status = 400 /\ res.body = [error |-> "Hash mismatch: bid or secret does not match commit"]

\* Hash mismatches in the run of reveals of (id, seat) that ends with this answer
Run(id, out) ==
  LET before == IF last.op = "reveal" /\ last.id = id /\ last.seat = out.seat
                     /\ IsMismatch(last.res)
                  THEN last.mismatches ELSE 0
      now    == IF IsMismatch(out.res) THEN before + 1 ELSE before
  IN IF now > MaxMismatches THEN MaxMismatches ELSE now

RevealRequest(r) ==
  LET out == RevealHandler(db, r.auctionId, r.seatToken, r.bid, r.secret)
  IN /\ db' = out.db
     /\ last' = Answer("reveal", r.auctionId, out, Run(r.auctionId, out))

Reveal ==
  /\ dbReady
  /\ \E r \in RevealRequests : RevealRequest(r)
  /\ UNCHANGED <<dbReady, conn, cleared>>

GetStatus ==
  /\ dbReady
  /\ \E r \in StatusRequests :
       last' = Answer("status", r.auctionId, StatusHandler(db, r.auctionId, r.seatToken), 0)
  /\ UNCHANGED <<dbReady, db, conn, cleared>>

GetResult ==
  /\ dbReady
  /\ \E auctionId \in AuctionIds :
       last' = Answer("result", auctionId, ResultHandler(db, auctionId), 0)
  /\ UNCHANGED <<dbReady, db, conn, cleared>>

Next ==
  \/ InitDb
  \/ Unavailable
  \/ Create
  \/ Commit
  \/ ResetCommit
  \/ Reveal
  \/ GetStatus
  \/ GetResult

Spec == Init /\ [][Next]_vars

(***************************************************************************)
(* Requests in flight.  Node runs one handler at a time and the handlers   *)
(* never await, so a request is accepted (parsed and queued), then its     *)
(* handler runs to completion as one step, then the response is sent and   *)
(* the connection is free again.  Requests of several connections may be   *)
(* pending together and are processed in any order.  A processed request   *)
(* remembers peers, the connections whose requests were pending while it   *)
(* ran.  The behaviours start from the state Spec is in after InitDb and   *)
(* one Create.                                                             *)
(***************************************************************************)
ConcRequests ==
  [op : {"commit"}, auctionId : {"a1"}, seatToken : {"t1"},
     commit : {ClientCommit(b, <<"s">>, "a1", "A") :
                 b \in {<<"1", ".", "5", "0">>, <<"2", ".", "0", "0">>}}]
    \cup [op : {"commit"}, auctionId : {"a1"}, seatToken : {"t2"},
            commit : {ClientCommit(<<"1", ".", "5", "0">>, <<"s">>, "a1", "B")}]
    \cup [op : {"reset"}, auctionId : {"a1"}, seatToken : {"t1", "t2"}]
    \cup [op : {"reveal"}, auctionId : {"a1"}, seatToken : {"t1", "t2"},
            bid : {B150}, secret : {<<"s">>}]

Handle(d, r) ==
  IF r.op = "commit" THEN CommitHandler(d, r.auctionId, r.seatToken, r.commit)
  ELSE IF r.op = "reset" THEN ResetCommitHandler(d, r.auctionId, r.seatToken)
  ELSE RevealHandler(d, r.auctionId, r.seatToken, r.bid, r.secret)

InitConc ==
  LET out == CreateHandler(<<>>, JStr(<<" ", "s", " ">>), Undefined, JStr(<<"u", " ">>),
                           "a1", "t1", "t2")
  IN /\ dbReady = TRUE
     /\ db = out.db
     /\ last = Answer("create", "a1", out, 0)
     /\ conn = [c \in Conns |-> Idle]
     /\ cleared = [id \in AuctionIds |-> [seat \in Seats |-> 0]]

Accept ==
  /\ dbReady
  /\ \E c \in Conns, r \in ConcRequests :
       /\ conn[c].state = "idle"
       /\ conn' = [conn EXCEPT ![c] = [state |-> "pending", req |-> r]]
  /\ UNCHANGED <<dbReady, db, last, cleared>>

Processing(c) ==
  /\ conn[c].state = "pending"
  /\ LET out == Handle(db, conn[c].req)
     IN /\ db' = out.db
        /\ conn' = [conn EXCEPT ![c] =
                      [state |-> "done", req |-> conn[c].req, seat |-> out.seat,
                       res |-> out.res,
                       peers |-> {p \in Conns \ {c} : conn[p].state = "pending"}]]

Process ==
  /\ \E c \in Conns : Processing(c)
  /\ UNCHANGED <<dbReady, last, cleared>>

Close ==
  /\ \E c \in Conns :
       /\ conn[c].state = "done"
       /\ conn' = [conn EXCEPT ![c] = Idle]
  /\ UNCHANGED <<dbReady, db, last, cleared>>

NextConc == Accept \/ Process \/ Close

SpecConc == InitConc /\ [][NextConc]_vars

(***************************************************************************)
(* The life of one auction: from the state after InitDb and one Create,    *)
(* commit, reset-commit and reveal requests of both seats are served one   *)
(* after the other, and every step that takes a stored commit away is      *)
(* counted in cleared.                                                     *)
(***************************************************************************)
Clears(d, e) ==
  [id \in AuctionIds |->
     [seat \in Seats |->
        IF /\ id \in DOMAIN d /\ id \in DOMAIN e
           /\ CommitOf(d[id], seat) # NULL /\ CommitOf(e[id], seat) = NULL
           /\ cleared[id][seat] < MaxClears
          THEN cleared[id][seat] + 1
          ELSE cleared[id][seat]]]

Served(r) ==
  LET out == Handle(db, r)
  IN /\ db' = out.db
     /\ last' = Answer(r.op, r.auctionId, out, 0)
     /\ cleared' = Clears(db, out.db)

Serve ==
  /\ dbReady
  /\ \E r \in ConcRequests : Served(r)
  /\ UNCHANGED <<dbReady, conn>>

NextLife == Serve

SpecLife == InitConc /\ [][NextLife]_vars

(***************************************************************************)
(* Creation with any draws.  generateAuctionId and generateToken return    *)
(* random bytes, so a Create may draw an id or a token that was drawn      *)
(* before, or the same token for both seats.  Here every draw from a small *)
(* pool is possible and the INSERT decides.                                *)
(***************************************************************************)
DrawnTokens == {"t1", "t2", "t3", "t4"}
AnyDraws == AuctionIds \X DrawnTokens \X DrawnTokens

CreateDrawnRequest(draw) ==
  LET out == CreateHandler(db, JStr(<<"s">>), Undefined, Undefined,
                           draw[1], draw[2], draw[3])
  IN /\ db' = out.db
     /\ last' = Answer("create", "-", out, 0)

CreateDrawn ==
  /\ dbReady
  /\ \E draw \in AnyDraws : CreateDrawnRequest(draw)
  /\ UNCHANGED <<dbReady, conn, cleared>>

NextDraws == InitDb \/ CreateDrawn

SpecDraws == Init /\ [][NextDraws]_vars

(***************************************************************************)
(* Bid validation.  From the state after InitDb and one Create, seat A     *)
(* sends reveal requests with every bid of BidInputs; the request's bid is *)
(* kept with the answer.                                                   *)
(***************************************************************************)
RevealBidRequest(bid) ==
  LET out == RevealHandler(db, "a1", "t1", bid, <<"s">>)
  IN /\ db' = out.db
     /\ last' = [op |-> "reveal", id |-> "a1", seat |-> out.seat, res |-> out.res,
                 mismatches |-> 0, bid |-> bid]

RevealBid ==
  /\ dbReady
  /\ \E bid \in BidInputs : RevealBidRequest(bid)
  /\ UNCHANGED <<dbReady, conn, cleared>>

NextBid == RevealBid

SpecBid == InitConc /\ [][NextBid]_vars

(***************************************************************************)
(* Vocabulary of the properties.                                           *)
(***************************************************************************)
\* The error kind a response stands for
ErrorKind(res) ==
  IF res.status = 200 THEN "none"
  ELSE IF res.status = 404 THEN "NotFound"
  ELSE IF res.status = 500 THEN "Internal"
  ELSE IF res.status = 503 THEN "Unavailable"
  ELSE IF res.body.error = "Commit already submitted" THEN "AlreadyCommitted"
  ELSE IF res.body.error = "Cannot reset: other party has already committed" THEN "Conflict"
  ELSE IF res.body.error = "Both parties must commit before reveal" THEN "PreconditionFailed"
  ELSE IF res.body.error = "Already revealed" THEN "AlreadyRevealed"
  ELSE IF res.body.error = "Hash mismatch: bid or secret does not match commit" THEN "HashMismatch"
  ELSE "ValidationError"

Succeeded(res) == res.status = 200

\* The token of a request resolves to a seat of its auction
Resolves(d, r) == getAuctionBySeatToken(d, r.auctionId, r.seatToken) # NULL
SeatOf(d, r) == Val(getAuctionBySeatToken(d, r.auctionId, r.seatToken)).seat

BothCommitted(auction) == auction.commit_a # NULL /\ auction.commit_b # NULL

(***************************************************************************)
(* C1.  In every reachable state, an auction that stores a bid for seat A  *)
(* or for seat B has the commits of both seats.                            *)
(***************************************************************************)
C1_BidImpliesBothCommits ==
  \A id \in DOMAIN db :
    (db[id].bid_a # NULL \/ db[id].bid_b # NULL) => BothCommitted(db[id])

\* One seat has revealed, the other has not
C1_Witness ==
  \E id \in DOMAIN db :
    /\ db[id].bid_a # NULL /\ db[id].bid_b = NULL
    /\ last.op = "reveal" /\ last.id = id /\ last.seat = "A" /\ Succeeded(last.res)

(***************************************************************************)
(* C2.  Commit is one-shot.  A Commit with a well-formed digest for a seat *)
(* that already has a commit is answered AlreadyCommitted and changes      *)
(* nothing, whatever the digest; and no step replaces a stored commit by   *)
(* another value: a stored commit stays or is cleared.                     *)
(***************************************************************************)
C2_CommitOneShot ==
  [][ /\ \A r \in CommitRequests :
           ( /\ dbReady /\ last'.op = "commit" /\ last'.id = r.auctionId
             /\ r.seatToken # "" /\ IsHex64(r.commit) /\ Resolves(db, r)
             /\ CommitOf(db[r.auctionId], SeatOf(db, r)) # NULL
             /\ CommitRequest(r) )
           => (ErrorKind(last'.res) = "AlreadyCommitted" /\ db' = db)
      /\ \A id \in DOMAIN db, seat \in Seats :
           CommitOf(db[id], seat) # NULL
           => ( /\ id \in DOMAIN db'
                /\ CommitOf(db'[id], seat) \in {CommitOf(db[id], seat), NULL} )
    ]_vars

\* A second Commit of a seat was refused and the first commit is still stored
C2_Witness ==
  /\ last.op = "commit" /\ last.seat \in Seats
  /\ ErrorKind(last.res) = "AlreadyCommitted"
  /\ CommitOf(db[last.id], last.seat) # NULL

(***************************************************************************)
(* C3.  A ResetCommit whose token resolves to a seat succeeds, and leaves  *)
(* that seat's commit absent, exactly when the other seat's commit is      *)
(* absent; when the other seat's commit is present it is answered Conflict *)
(* and the seat's commit is kept.                                          *)
(***************************************************************************)
C3_ResetIffCounterpartUncommitted ==
  [][ \A r \in ResetRequests :
        ( /\ dbReady /\ last'.op = "reset" /\ last'.id = r.auctionId
          /\ r.seatToken # "" /\ Resolves(db, r)
          /\ ResetRequest(r) )
        => LET id    == r.auctionId
               seat  == SeatOf(db, r)
               other == CommitOf(db[id], Other(seat))
           IN /\ Succeeded(last'.res) <=> (other = NULL)
              /\ other = NULL => CommitOf(db'[id], seat) = NULL
              /\ other # NULL => ( /\ ErrorKind(last'.res) = "Conflict"
                                   /\ db' = db )
    ]_vars

\* A seat that had committed alone has reset: its commit is absent again
C3_Witness ==
  /\ last.op = "reset" /\ last.seat \in Seats /\ Succeeded(last.res)
  /\ CommitOf(db[last.id], last.seat) = NULL
  /\ CommitOf(db[last.id], Other(last.seat)) = NULL

(***************************************************************************)
(* C6.  A Reveal with a valid bid and a non-empty secret, by a seat that   *)
(* has not revealed, in an auction where both seats have committed,        *)
(* succeeds exactly when the digest of (bid formatted to two decimals,     *)
(* secret, auction id, seat), computed by the documented formula, equals   *)
(* the commit stored for that seat; otherwise it is answered HashMismatch. *)
(***************************************************************************)
C6_RevealIffDigestMatches ==
  [][ \A r \in RevealRequests :
        ( /\ dbReady /\ last'.op = "reveal" /\ last'.id = r.auctionId
          /\ r.seatToken # "" /\ r.secret # <<>> /\ ValidBid[r.bid]
          /\ Resolves(db, r)
          /\ BothCommitted(db[r.auctionId])
          /\ BidOf(db[r.auctionId], SeatOf(db, r)) = NULL
          /\ RevealRequest(r) )
        => LET seat     == SeatOf(db, r)
               expected == ClientCommit(BidStr[r.bid], r.secret, r.auctionId, seat)
               matches  == expected = Val(CommitOf(db[r.auctionId], seat))
           IN /\ Succeeded(last'.res) <=> matches
              /\ ~matches => ErrorKind(last'.res) = "HashMismatch"
              /\ matches => BidOf(db'[r.auctionId], seat) # NULL
    ]_vars

\* A reveal was answered HashMismatch and the seat has still not revealed
C6_Witness ==
  /\ last.op = "reveal" /\ last.seat \in Seats
  /\ ErrorKind(last.res) = "HashMismatch"
  /\ BidOf(db[last.id], last.seat) = NULL

(***************************************************************************)
(* C7.  A Commit, ResetCommit or Reveal that is answered with an error     *)
(* leaves the database exactly as it was.                                  *)
(***************************************************************************)
C7_FailedRequestChangesNothing ==
  [][ /\ \A r \in CommitRequests :
           (dbReady /\ last'.op = "commit" /\ ~Succeeded(last'.res) /\ CommitRequest(r))
           => db' = db
      /\ \A r \in ResetRequests :
           (dbReady /\ last'.op = "reset" /\ ~Succeeded(last'.res) /\ ResetRequest(r))
           => db' = db
      /\ \A r \in RevealRequests :
           (dbReady /\ last'.op = "reveal" /\ ~Succeeded(last'.res) /\ RevealRequest(r))
           => db' = db
    ]_vars

\* A request failed on an auction that already holds a commit
C7_Witness ==
  /\ last.op \in {"commit", "reset", "reveal"} /\ last.seat \in Seats
  /\ ~Succeeded(last.res)
  /\ ErrorKind(last.res) \in {"AlreadyCommitted", "Conflict", "PreconditionFailed"}
  /\ \E seat \in Seats : CommitOf(db[last.id], seat) # NULL

(***************************************************************************)
(* C8.  A Reveal answered HashMismatch leaves the database as it was, and  *)
(* a matching Reveal by a seat that has just been answered HashMismatch,   *)
(* however many times in a row, succeeds: failed attempts are not counted  *)
(* against the seat.                                                       *)
(***************************************************************************)
C8_MismatchIsRetryable ==
  [][ /\ \A r \in RevealRequests :
           (dbReady /\ last'.op = "reveal" /\ IsMismatch(last'.res) /\ RevealRequest(r))
           => db' = db
      /\ \A r \in RevealRequests :
           ( /\ dbReady /\ last'.op = "reveal"
             /\ last.op = "reveal" /\ IsMismatch(last.res) /\ last.mismatches >= 1
             /\ r.seatToken # "" /\ r.secret # <<>> /\ ValidBid[r.bid]
             /\ Resolves(db, r)
             /\ last.id = r.auctionId /\ last.seat = SeatOf(db, r)
             /\ ClientCommit(BidStr[r.bid], r.secret, r.auctionId, last.seat)
                  = Val(CommitOf(db[r.auctionId], last.seat))
             /\ RevealRequest(r) )
           => /\ Succeeded(last'.res)
              /\ last'.mismatches = last.mismatches
              /\ BidOf(db'[r.auctionId], last.seat) # NULL
    ]_vars

\* A reveal succeeded right after MaxMismatches mismatches of the same seat
C8_Witness ==
  /\ last.op = "reveal" /\ last.seat \in Seats /\ Succeeded(last.res)
  /\ last.mismatches = MaxMismatches
  /\ BidOf(db[last.id], last.seat) # NULL

(***************************************************************************)
(* C9.  Reveal is one-way.  Once a seat's bid is stored, no step changes   *)
(* that seat's bid, secret or commit, and a further Reveal, Commit or      *)
(* ResetCommit by that seat is answered AlreadyRevealed, AlreadyCommitted  *)
(* or Conflict; once both bids are stored the auction's row never changes. *)
(***************************************************************************)
C9_RevealIsFinal ==
  [][ /\ \A id \in DOMAIN db, seat \in Seats :
           BidOf(db[id], seat) # NULL
           => /\ id \in DOMAIN db'
              /\ BidOf(db'[id], seat) = BidOf(db[id], seat)
              /\ SecretOf(db'[id], seat) = SecretOf(db[id], seat)
              /\ CommitOf(db'[id], seat) = CommitOf(db[id], seat)
      /\ \A id \in DOMAIN db :
           (db[id].bid_a # NULL /\ db[id].bid_b # NULL)
           => (id \in DOMAIN db' /\ db'[id] = db[id])
      /\ \A r \in RevealRequests :
           ( /\ dbReady /\ last'.op = "reveal" /\ last'.id = r.auctionId
             /\ r.seatToken # "" /\ r.secret # <<>> /\ ValidBid[r.bid]
             /\ Resolves(db, r) /\ BidOf(db[r.auctionId], SeatOf(db, r)) # NULL
             /\ RevealRequest(r) )
           => ErrorKind(last'.res) = "AlreadyRevealed"
      /\ \A r \in CommitRequests :
           ( /\ dbReady /\ last'.op = "commit" /\ last'.id = r.auctionId
             /\ r.seatToken # "" /\ IsHex64(r.commit)
             /\ Resolves(db, r) /\ BidOf(db[r.auctionId], SeatOf(db, r)) # NULL
             /\ CommitRequest(r) )
           => ErrorKind(last'.res) = "AlreadyCommitted"
      /\ \A r \in ResetRequests :
           ( /\ dbReady /\ last'.op = "reset" /\ last'.id = r.auctionId
             /\ r.seatToken # ""
             /\ Resolves(db, r) /\ BidOf(db[r.auctionId], SeatOf(db, r)) # NULL
             /\ ResetRequest(r) )
           => ErrorKind(last'.res) = "Conflict"
    ]_vars

\* Both seats have revealed and one more Reveal was refused
C9_Witness ==
  /\ last.op = "reveal" /\ last.seat \in Seats
  /\ ErrorKind(last.res) = "AlreadyRevealed"
  /\ db[last.id].bid_a # NULL /\ db[last.id].bid_b # NULL

(***************************************************************************)
(* C10.  No asymmetric disclosure.  Until both bids of an auction are      *)
(* stored, a GetResult answer is exactly revealed:false and a GetStatus    *)
(* answer carries the phase, the four presence booleans, the caller's seat *)
(* and the auction's metadata and nothing else; answers to Create, Commit, *)
(* ResetCommit and Reveal never carry a bid, secret or commit.  Once both  *)
(* bids are stored GetResult shows both.                                   *)
(***************************************************************************)
StatusFields ==
  {"phase", "hasCommitA", "hasCommitB", "hasRevealA", "hasRevealB",
   "title", "description", "itemUrl", "mySeat", "revealed"}

C10_NoEarlyDisclosure ==
  /\ (last.op = "result" /\ Succeeded(last.res))
     => LET auction == db[last.id]
            body    == last.res.body
        IN IF auction.bid_a = NULL \/ auction.bid_b = NULL
             THEN body = [revealed |-> FALSE]
             ELSE /\ body.revealed = TRUE
                  /\ body.bidA = CentsText(Val(auction.bid_a))
                  /\ body.bidB = CentsText(Val(auction.bid_b))
  /\ (last.op = "status" /\ Succeeded(last.res))
     => LET auction == db[last.id]
            body    == last.res.body
        IN /\ DOMAIN body \subseteq StatusFields
           /\ body.phase \in {"commit", "reveal", "revealed"}
           /\ \A f \in {"hasCommitA", "hasCommitB", "hasRevealA", "hasRevealB"} :
                body[f] \in BOOLEAN
           /\ "mySeat" \in DOMAIN body => body.mySeat \in Seats
           /\ "revealed" \in DOMAIN body
                => (body.revealed = TRUE /\ auction.bid_a # NULL /\ auction.bid_b # NULL)
           /\ body.title = auction.title
           /\ body.description = auction.description
           /\ body.itemUrl = auction.item_url
  /\ (last.op \in {"commit", "reset", "reveal"} /\ Succeeded(last.res))
     => last.res.body = [ok |-> TRUE]
  /\ (last.op = "create" /\ Succeeded(last.res))
     => DOMAIN last.res.body = {"auctionId", "seatALink", "seatBLink"}
  /\ (last.op # "none" /\ ~Succeeded(last.res))
     => DOMAIN last.res.body = {"error"}

\* One seat has revealed, the other has not, and the result was asked for
C10_Witness ==
  /\ last.op = "result" /\ Succeeded(last.res)
  /\ db[last.id].bid_a # NULL /\ db[last.id].bid_b = NULL
  /\ last.res.body = [revealed |-> FALSE]

(***************************************************************************)
(* C4.  With requests of both seats in flight and processed in any order,  *)
(* no step clears a seat's commit in a state where the other seat's commit *)
(* is present, and a ResetCommit processed once the counterpart's commit   *)
(* is stored is answered Conflict and changes nothing, also when it was    *)
(* already pending while that Commit was processed.                        *)
(***************************************************************************)
C4_ResetNeverClearsAfterCounterpartCommit ==
  [][ /\ \A id \in DOMAIN db, seat \in Seats :
           (CommitOf(db[id], seat) # NULL /\ CommitOf(db[id], Other(seat)) # NULL)
           => (id \in DOMAIN db' /\ CommitOf(db'[id], seat) = CommitOf(db[id], seat))
      /\ \A c \in Conns :
           ( /\ conn[c].state = "pending" /\ conn[c].req.op = "reset"
             /\ Resolves(db, conn[c].req)
             /\ CommitOf(db[conn[c].req.auctionId], Other(SeatOf(db, conn[c].req))) # NULL
             /\ Processing(c) )
           => (ErrorKind(conn'[c].res) = "Conflict" /\ db' = db)
    ]_vars

\* A reset was pending while the other seat's Commit was processed and
\* accepted; processed after it, the reset got Conflict and both commits stand
C4_Witness ==
  \E c, p \in Conns :
    /\ conn[c].state = "done" /\ conn[c].req.op = "reset"
    /\ conn[p].state = "done" /\ conn[p].req.op = "commit"
    /\ conn[p].seat = Other(conn[c].seat) /\ Succeeded(conn[p].res)
    /\ c \in conn[p].peers
    /\ ErrorKind(conn[c].res) = "Conflict"
    /\ BothCommitted(db[conn[c].req.auctionId])

(***************************************************************************)
(* C5.  Two Commit requests for the same seat in flight together: a Commit *)
(* passes the guard and writes only when the seat has no commit, and then  *)
(* the stored commit is its digest and every other pending Commit of that  *)
(* seat would be refused; a Commit processed while the digest of an        *)
(* accepted Commit of that seat is stored is answered AlreadyCommitted and *)
(* changes nothing.  So of two racing Commits on a seat without a commit   *)
(* the first processed succeeds and the second gets AlreadyCommitted.      *)
(***************************************************************************)
C5_OneOfTwoRacingCommitsWins ==
  [][ \A c \in Conns :
        ( /\ conn[c].state = "pending" /\ conn[c].req.op = "commit"
          /\ Resolves(db, conn[c].req)
          /\ Processing(c) )
        => LET r      == conn[c].req
               seat   == SeatOf(db, r)
               stored == CommitOf(db[r.auctionId], seat)
           IN /\ Succeeded(conn'[c].res) <=> (stored = NULL)
              /\ stored = NULL
                   => /\ CommitOf(db'[r.auctionId], seat) = Some(r.commit)
                      /\ \A p \in Conns \ {c} :
                           ( /\ conn[p].state = "pending" /\ conn[p].req.op = "commit"
                             /\ conn[p].req.seatToken = r.seatToken )
                           => ErrorKind(Handle(db', conn[p].req).res) = "AlreadyCommitted"
              /\ stored # NULL
                   => (ErrorKind(conn'[c].res) = "AlreadyCommitted" /\ db' = db)
    ]_vars

\* Two Commits of one seat with different digests were pending together:
\* the first processed succeeded, the second was refused, the first's digest
\* is the one stored
C5_Witness ==
  \E c, p \in Conns :
    /\ conn[c].state = "done" /\ conn[c].req.op = "commit"
    /\ conn[p].state = "done" /\ conn[p].req.op = "commit"
    /\ conn[c].req.seatToken = conn[p].req.seatToken
    /\ conn[c].req.commit # conn[p].req.commit
    /\ p \in conn[c].peers
    /\ Succeeded(conn[c].res)
    /\ ErrorKind(conn[p].res) = "AlreadyCommitted"
    /\ CommitOf(db[conn[c].req.auctionId], conn[c].seat) = Some(conn[c].req.commit)

(***************************************************************************)
(* C11.  GetResult on an existing auction answers exactly revealed:false   *)
(* until both bids are stored; once both are stored the winner is 'A' iff  *)
(* bid A is larger, 'B' iff bid B is larger and 'TIE' iff they are equal,  *)
(* and paymentAmount is the larger bid with two decimals, null on a tie.   *)
(***************************************************************************)
C11_ResultWinner ==
  (last.op = "result" /\ Succeeded(last.res))
  => LET auction == db[last.id]
         body    == last.res.body
     IN IF auction.bid_a = NULL \/ auction.bid_b = NULL
          THEN body = [revealed |-> FALSE]
          ELSE LET a == Val(auction.bid_a)
                   b == Val(auction.bid_b)
               IN /\ body.revealed = TRUE
                  /\ body.winner \in {"A", "B", "TIE"}
                  /\ body.winner = "A" <=> a > b
                  /\ body.winner = "B" <=> b > a
                  /\ body.winner = "TIE" <=> a = b
                  /\ body.paymentAmount
                       = (IF a = b THEN NULL
                          ELSE Some(CentsText(IF a > b THEN a ELSE b)))

\* Both have revealed equal bids: the result is a tie without a payment
C11_Witness ==
  /\ last.op = "result" /\ Succeeded(last.res)
  /\ db[last.id].bid_a # NULL /\ db[last.id].bid_a = db[last.id].bid_b
  /\ last.res.body.winner = "TIE" /\ last.res.body.paymentAmount = NULL

(***************************************************************************)
(* C12.  The phase GetStatus reports is computed from the row as it is     *)
(* when read: 'revealed' iff both bids are stored, otherwise 'reveal' iff  *)
(* both commits are stored, otherwise 'commit'; and each of hasCommitA,    *)
(* hasCommitB, hasRevealA, hasRevealB tells whether its field is stored.   *)
(***************************************************************************)
PhaseOf(auction) ==
  IF auction.bid_a # NULL /\ auction.bid_b # NULL THEN "revealed"
  ELSE IF auction.commit_a # NULL /\ auction.commit_b # NULL THEN "reveal"
  ELSE "commit"

C12_PhaseIsDerived ==
  (last.op = "status" /\ Succeeded(last.res))
  => LET auction == db[last.id]
         body    == last.res.body
     IN /\ body.phase = PhaseOf(auction)
        /\ body.hasCommitA = (auction.commit_a # NULL)
        /\ body.hasCommitB = (auction.commit_b # NULL)
        /\ body.hasRevealA = (auction.bid_a # NULL)
        /\ body.hasRevealB = (auction.bid_b # NULL)

\* Status read after both seats revealed
C12_Witness ==
  /\ last.op = "status" /\ Succeeded(last.res)
  /\ last.res.body.phase = "revealed"
  /\ last.res.body.hasRevealA /\ last.res.body.hasRevealB

(***************************************************************************)
(* C13.  As claimed: a seat's commit is cleared at most once, so that      *)
(* after commit, reset and commit a further ResetCommit of the seat does   *)
(* not clear the commit again.                                             *)
(***************************************************************************)
C13_ClearedAtMostOnce ==
  \A id \in AuctionIds, seat \in Seats : cleared[id][seat] <= 1

(***************************************************************************)
(* C13, amended.  A seat's commit is cleared only by a successful          *)
(* ResetCommit of that seat in a state where the other seat's commit is    *)
(* absent, and the number of times is not limited: a ResetCommit by a seat *)
(* whose commit was cleared before succeeds and clears it again as long as *)
(* the other seat has not committed.                                       *)
(***************************************************************************)
C13_ClearedWhileCounterpartUncommitted ==
  [][ /\ \A id \in DOMAIN db, seat \in Seats :
           cleared'[id][seat] # cleared[id][seat]
           => /\ CommitOf(db[id], Other(seat)) = NULL
              /\ last'.op = "reset" /\ last'.id = id /\ last'.seat = seat
              /\ Succeeded(last'.res)
      /\ \A r \in ConcRequests :
           ( /\ r.op = "reset" /\ last'.op = "reset" /\ Resolves(db, r)
             /\ cleared[r.auctionId][SeatOf(db, r)] >= 1
             /\ CommitOf(db[r.auctionId], SeatOf(db, r)) # NULL
             /\ CommitOf(db[r.auctionId], Other(SeatOf(db, r))) = NULL
             /\ Served(r) )
           => /\ Succeeded(last'.res)
              /\ CommitOf(db'[r.auctionId], SeatOf(db, r)) = NULL
    ]_vars

\* A seat has committed, reset, committed and reset again
C13_Witness ==
  \E id \in DOMAIN db, seat \in Seats :
    /\ cleared[id][seat] = 2
    /\ last.op = "reset" /\ last.id = id /\ last.seat = seat /\ Succeeded(last.res)
    /\ CommitOf(db[id], seat) = NULL

(***************************************************************************)
(* C14.  For every auction created the token of seat A differs from the    *)
(* token of seat B, no token of one auction is a token (of either seat) of *)
(* another auction, and a Create whose draw collides with a stored id or   *)
(* token, or draws one token for both seats, is answered with an error and *)
(* stores nothing.                                                         *)
(***************************************************************************)
TokensOf(auction) == {auction.seat_a_token, auction.seat_b_token}

TokensDistinct(d) ==
  /\ \A k \in DOMAIN d : d[k].seat_a_token # d[k].seat_b_token
  /\ \A k, j \in DOMAIN d : k # j => TokensOf(d[k]) \cap TokensOf(d[j]) = {}

Collides(d, draw) ==
  \/ draw[1] \in DOMAIN d
  \/ draw[2] = draw[3]
  \/ \E k \in DOMAIN d : {draw[2], draw[3]} \cap TokensOf(d[k]) # {}

C14_TokensNeverCollide ==
  [][ \A draw \in AnyDraws :
        (dbReady /\ last'.op = "create" /\ CreateDrawnRequest(draw))
        => /\ Collides(db, draw) => (~Succeeded(last'.res) /\ db' = db)
           /\ TokensDistinct(db')
    ]_vars

(***************************************************************************)
(* C15.  For a number, or a string that is a decimal numeral, validateBid  *)
(* accepts the bid exactly when its value is above 0 and at most 100000    *)
(* and it has at most two fractional digits; a string that is no numeral   *)
(* is rejected.  (Numerals written with an exponent are left open as       *)
(* strings; a number has the fractional digits of its decimal expansion.)  *)
(***************************************************************************)
AllDigits(t) == \A i \in 1..Len(t) : IsDigit(t[i])

Unsigned(t) == IF Len(t) > 0 /\ t[1] \in {"-", "+"} THEN Tail(t) ELSE t

\* digits, optionally with one point, at least one digit
IsPlainDecimal(t) ==
  LET parts == SplitDot(Unsigned(t))
  IN /\ Len(parts) <= 2
     /\ \A i \in 1..Len(parts) : AllDigits(parts[i])
     /\ \E i \in 1..Len(parts) : Len(parts[i]) > 0

\* a plain decimal followed by e, an optional sign and digits
IsExponentNumeral(t) ==
  \E i \in 1..Len(t) :
    /\ t[i] \in {"e", "E"}
    /\ IsPlainDecimal(SubSeq(t, 1, i - 1))
    /\ Len(Unsigned(SubSeq(t, i + 1, Len(t)))) > 0
    /\ AllDigits(Unsigned(SubSeq(t, i + 1, Len(t))))

IsNumeral(t) == IsPlainDecimal(t) \/ IsExponentNumeral(t)

\* Fractional digits of m * 10^e written as a decimal
RECURSIVE ExpansionDigits(_, _)
ExpansionDigits(m, e) ==
  IF e >= 0 \/ m = 0 THEN 0
  ELSE IF m % 10 = 0 THEN ExpansionDigits(m \div 10, e + 1)
  ELSE 0 - e

FractionDigits(bid) ==
  IF bid.type = "number"
    THEN ExpansionDigits(parseFloat(bid.text).m, parseFloat(bid.text).e)
    ELSE LET parts == SplitDot(bid.text)
         IN IF Len(parts) > 1 THEN Len(parts[2]) ELSE 0

InRange(bid) == ~LeqZero(parseFloat(bid.text)) /\ ~Gt100000(parseFloat(bid.text))

C15_ValidateBidIff ==
  (last.op = "reveal" /\ "bid" \in DOMAIN last)
  => LET bid      == last.bid
         accepted == ErrorKind(last.res) # "ValidationError"
     IN /\ (bid.type = "string" /\ ~IsNumeral(bid.text)) => ~accepted
        /\ (bid.type = "number" \/ IsPlainDecimal(bid.text))
             => (accepted <=> (InRange(bid) /\ FractionDigits(bid) <= 2))

(***************************************************************************)
(* C16.  Frame.  A Commit, ResetCommit or Reveal changes nothing but       *)
(* fields of the seat that holds the request's token in the auction the    *)
(* request names: a Commit or ResetCommit at most that seat's commit, a    *)
(* Reveal at most that seat's bid and secret.  The other seat's fields,    *)
(* the tokens, the metadata and every other auction stay as they were, and *)
(* a request whose token no seat of that auction holds changes nothing.    *)
(***************************************************************************)
\* The seat of auction id whose token is the given one, "-" when there is none
Holder(d, id, token) ==
  IF id \notin DOMAIN d THEN "-"
  ELSE IF d[id].seat_a_token = token THEN "A"
  ELSE IF d[id].seat_b_token = token THEN "B"
  ELSE "-"

CommitColumn(seat) == IF seat = "A" THEN {"commit_a"} ELSE IF seat = "B" THEN {"commit_b"} ELSE {}
RevealColumns(seat) ==
  IF seat = "A" THEN {"bid_a", "secret_a"} ELSE IF seat = "B" THEN {"bid_b", "secret_b"} ELSE {}

\* From db to db' nothing changed except, in auction id, fields among columns
OnlyChanged(id, columns) ==
  /\ DOMAIN db' = DOMAIN db
  /\ \A k \in DOMAIN db :
       \/ db'[k] = db[k]
       \/ /\ k = id
          /\ \A f \in DOMAIN db[k] : db'[k][f] # db[k][f] => f \in columns

C16_Frame ==
  [][ /\ \A r \in CommitRequests :
           ( /\ dbReady /\ last'.op = "commit" /\ last'.id = r.auctionId
             /\ (db' # db \/ Succeeded(last'.res))
             /\ CommitRequest(r) )
           => LET seat == Holder(db, r.auctionId, r.seatToken)
              IN /\ OnlyChanged(r.auctionId, CommitColumn(seat))
                 /\ Succeeded(last'.res)
                      => /\ seat \in Seats /\ last'.seat = seat
                         /\ CommitOf(db'[r.auctionId], seat) = Some(r.commit)
      /\ \A r \in ResetRequests :
           ( /\ dbReady /\ last'.op = "reset" /\ last'.id = r.auctionId
             /\ (db' # db \/ Succeeded(last'.res))
             /\ ResetRequest(r) )
           => LET seat == Holder(db, r.auctionId, r.seatToken)
              IN /\ OnlyChanged(r.auctionId, CommitColumn(seat))
                 /\ Succeeded(last'.res)
                      => /\ seat \in Seats /\ last'.seat = seat
                         /\ CommitOf(db'[r.auctionId], seat) = NULL
      /\ \A r \in RevealRequests :
           ( /\ dbReady /\ last'.op = "reveal" /\ last'.id = r.auctionId
             /\ (db' # db \/ Succeeded(last'.res))
             /\ RevealRequest(r) )
           => LET seat == Holder(db, r.auctionId, r.seatToken)
              IN /\ OnlyChanged(r.auctionId, RevealColumns(seat))
                 /\ Succeeded(last'.res)
                      => /\ seat \in Seats /\ last'.seat = seat
                         /\ BidOf(db'[r.auctionId], seat) # NULL
                         /\ SecretOf(db'[r.auctionId], seat) = Some(r.secret)
    ]_vars

\* Seat B of a1 revealed while seat A had revealed and auction a2 held a commit
C16_Witness ==
  /\ last.op = "reveal" /\ last.id = "a1" /\ last.seat = "B" /\ Succeeded(last.res)
  /\ db["a1"].bid_a # NULL /\ db["a1"].bid_b # NULL
  /\ "a2" \in DOMAIN db /\ db["a2"].commit_a # NULL

(***************************************************************************)
(* C17.  The derived phase of an auction never goes back: at every step it *)
(* stays or moves one stage along commit, reveal, revealed.  Once both     *)
(* commits are stored no step clears or replaces either of them: a Commit  *)
(* by either seat is answered AlreadyCommitted and a ResetCommit by either *)
(* seat Conflict.                                                          *)
(***************************************************************************)
Stage(phase) == IF phase = "commit" THEN 0 ELSE IF phase = "reveal" THEN 1 ELSE 2

C17_PhaseNeverRegresses ==
  [][ /\ \A id \in DOMAIN db :
           /\ id \in DOMAIN db'
           /\ Stage(PhaseOf(db'[id])) \in
                {Stage(PhaseOf(db[id])), Stage(PhaseOf(db[id])) + 1}
           /\ BothCommitted(db[id])
                => /\ db'[id].commit_a = db[id].commit_a
                   /\ db'[id].commit_b = db[id].commit_b
      /\ \A r \in CommitRequests :
           ( /\ dbReady /\ last'.op = "commit" /\ last'.id = r.auctionId
             /\ Holder(db, r.auctionId, r.seatToken) \in Seats
             /\ BothCommitted(db[r.auctionId]) /\ IsHex64(r.commit)
             /\ CommitRequest(r) )
           => ErrorKind(last'.res) = "AlreadyCommitted"
      /\ \A r \in ResetRequests :
           ( /\ dbReady /\ last'.op = "reset" /\ last'.id = r.auctionId
             /\ Holder(db, r.auctionId, r.seatToken) \in Seats
             /\ BothCommitted(db[r.auctionId])
             /\ ResetRequest(r) )
           => ErrorKind(last'.res) = "Conflict"
    ]_vars

\* In phase reveal, with no bid stored yet, a ResetCommit was refused
C17_Witness ==
  /\ last.op = "reset" /\ last.seat \in Seats /\ ErrorKind(last.res) = "Conflict"
  /\ PhaseOf(db[last.id]) = "reveal"
  /\ db[last.id].bid_a = NULL /\ db[last.id].bid_b = NULL

(***************************************************************************)
(* C18.  Binding.  In every reachable state, for each seat whose bid is    *)
(* stored, the seat's stored commit is the documented digest of the stored *)
(* bid written with two decimals, the stored secret, the auction id and    *)
(* the seat label; and the bids a GetResult answer shows are bound in the  *)
(* same way by the two commits.                                            *)
(***************************************************************************)
Bound(id, seat, bidText) ==
  /\ SecretOf(db[id], seat) # NULL
  /\ CommitOf(db[id], seat)
       = Some(ClientCommit(bidText, Val(SecretOf(db[id], seat)), id, seat))

C18_BidsAreBoundByCommits ==
  /\ \A id \in DOMAIN db, seat \in Seats :
       BidOf(db[id], seat) # NULL => Bound(id, seat, CentsText(Val(BidOf(db[id], seat))))
  /\ (last.op = "result" /\ Succeeded(last.res) /\ last.res.body.revealed)
       => /\ Bound(last.id, "A", last.res.body.bidA)
          /\ Bound(last.id, "B", last.res.body.bidB)

\* The result of an auction with two different bids was read
C18_Witness ==
  /\ last.op = "result" /\ Succeeded(last.res) /\ last.res.body.revealed
  /\ last.res.body.bidA # last.res.body.bidB
  /\ db[last.id].bid_a # NULL /\ db[last.id].bid_b # NULL

(***************************************************************************)
(* C19.  No replay across seats or auctions.  When the commit stored for   *)
(* the revealing seat is the digest of the revealed bid and secret bound   *)
(* to another seat or to another auction id, as when seat B committed the  *)
(* digest seat A committed and reveals A's bid and secret, the Reveal is   *)
(* answered HashMismatch and stores nothing.  A Reveal that succeeds has   *)
(* verified the digest bound to the request's auction id and to the seat   *)
(* that holds the token.                                                   *)
(***************************************************************************)
C19_NoReplay ==
  [][ \A r \in RevealRequests :
        ( /\ dbReady /\ last'.op = "reveal" /\ last'.id = r.auctionId
          /\ r.seatToken # "" /\ r.secret # <<>> /\ ValidBid[r.bid]
          /\ Holder(db, r.auctionId, r.seatToken) \in Seats
          /\ BothCommitted(db[r.auctionId])
          /\ BidOf(db[r.auctionId], Holder(db, r.auctionId, r.seatToken)) = NULL
          /\ RevealRequest(r) )
        => LET seat   == Holder(db, r.auctionId, r.seatToken)
               stored == Val(CommitOf(db[r.auctionId], seat))
           IN /\ (\E id \in AuctionIds, x \in Seats :
                    /\ <<id, x>> # <<r.auctionId, seat>>
                    /\ stored = ClientCommit(BidStr[r.bid], r.secret, id, x))
                   => (ErrorKind(last'.res) = "HashMismatch" /\ db' = db)
              /\ Succeeded(last'.res)
                   => stored = ClientCommit(BidStr[r.bid], r.secret, r.auctionId, seat)
    ]_vars

\* Seat B stored the digest seat A committed, and its Reveal was refused
C19_Witness ==
  /\ last.op = "reveal" /\ last.id = "a1" /\ last.seat = "B"
  /\ ErrorKind(last.res) = "HashMismatch"
  /\ db["a1"].commit_a = Some(Replayed) /\ db["a1"].commit_b = Some(Replayed)
  /\ db["a1"].bid_b = NULL

\* In auction a2 both seats stored a digest computed for auction a1, and a
\* Reveal there was refused
C19_WitnessOtherAuction ==
  /\ last.op = "reveal" /\ last.id = "a2" /\ last.seat \in Seats
  /\ ErrorKind(last.res) = "HashMismatch"
  /\ db["a2"].commit_a = Some(Replayed) /\ db["a2"].commit_b = Some(Replayed)

(***************************************************************************)
(* C20.  Reveals are order-independent.  In every reachable state where an *)
(* auction has both commits and a seat has not revealed, a successful      *)
(* Reveal of that seat does not change the answer to any Reveal of the     *)
(* other seat; and when both Reveals succeed, performing them in either    *)
(* order gives the same database and the same GetResult answer.            *)
(***************************************************************************)
Reveals(d, r) == RevealHandler(d, r.auctionId, r.seatToken, r.bid, r.secret)

C20_RevealsCommute ==
  \A r, s \in RevealRequests :
    ( /\ r.auctionId = s.auctionId /\ r.auctionId \in DOMAIN db
      /\ BothCommitted(db[r.auctionId])
      /\ Holder(db, r.auctionId, r.seatToken) \in Seats
      /\ Holder(db, s.auctionId, s.seatToken) = Other(Holder(db, r.auctionId, r.seatToken))
      /\ BidOf(db[s.auctionId], Holder(db, s.auctionId, s.seatToken)) = NULL
      /\ Succeeded(Reveals(db, s).res) )
    => LET alone  == Reveals(db, r)
           afterS == Reveals(db, s).db
           ba     == Reveals(afterS, r)
       IN /\ ba.res = alone.res
          /\ Succeeded(alone.res)
               => LET ab == Reveals(alone.db, s)
                  IN /\ Succeeded(ab.res)
                     /\ ab.db = ba.db
                     /\ ResultHandler(ab.db, r.auctionId).res
                          = ResultHandler(ba.db, r.auctionId).res
                     /\ ResultHandler(ab.db, r.auctionId).res.body.revealed

\* Seat A of a1 revealed after seat B had, with another bid than seat B's
C20_Witness ==
  /\ last.op = "reveal" /\ last.id = "a1" /\ last.seat = "A" /\ Succeeded(last.res)
  /\ db["a1"].bid_b # NULL /\ db["a1"].bid_a # db["a1"].bid_b

====
